---------------------------- MODULE Spec2Model ----------------------------
(***************************************************************************)
(* Model of nutanix_scripts: the Nutanix wrapper (api.py) and the          *)
(* prepare_env orchestration (prepare_kubernetes_env.py) running against   *)
(* a hypervisor whose listings and task reports are inputs.                *)
(*                                                                         *)
(* Python values are modelled as follows: a dict is a record, a list is a  *)
(* sequence, a str is a string, None and the empty list are <<>> (both are *)
(* falsy, and the code only ever tests them with "not x"), and an optional *)
(* dict is <<>> or <<d>>.  A raised exception is a record [exc, args] with *)
(* args the arguments its message is formatted from, already converted     *)
(* with str().                                                             *)
(***************************************************************************)
EXTENDS Integers, Sequences, FiniteSets, TLC

VARIABLES
    hv_vms,       \* hypervisor: the VMs of the cluster, in listing order
    hv_images,    \* hypervisor: the images of the cluster, in listing order
    cfg,          \* k8s_master_config / k8s_worker_config (number_of_nodes)
    pc,           \* position in the caller (prepare_env, or a test driver)
    at,           \* position inside the Nutanix method being executed
    local,        \* local variables of the caller (names: the keys of
                  \* vms_with_ips, in the order its iteration yields them)
    exc,          \* the exception that ended the run, NoExc while running
    task,         \* the task reference last returned by the hypervisor
    task_info,    \* the last payload fetched by wait_for_task
    polls,        \* iterations of the polling loop being executed
    last_call,    \* the last request sent through __api_call and its outcome
    calls,        \* number of requests sent so far, per client operation
                  \* (the status fetches of a task are counted by polls),
                  \* and under "connect" the number of login requests
    clone_data,   \* the spec_list sent with the clone request
    power_sent,   \* uuids a power-on request was sent for, in order
    lk,           \* inputs and result of a function called on its own: a
                  \* name-based lookup, generate_cloud_config
    inventory_file  \* the text written to INVENTORY_FILE, <<>> before

vars == <<hv_vms, hv_images, cfg, pc, at, local, exc, task, task_info, polls,
          last_call, calls, clone_data, power_sent, lk, inventory_file>>

-----------------------------------------------------------------------------
(* Bounds of the model *)

MaxEntities == 3
MaxWorkers == 2
MaxMasters == 1
MaxPolls == 2
MaxCopies == 2
MaxFiles == 3

(* Program constants *)

OK == 200
CREATED == 201

-----------------------------------------------------------------------------
(* Exceptions (exceptions.py) and results of a method call *)

NoExc == [exc |-> "none", args |-> <<>>]

Raise(kind, args) == [exc |-> kind, value |-> <<>>, args |-> args]

Return(v) == [exc |-> "none", value |-> v, args |-> <<>>]

\* InvalidNumberOfItems.INVALID_COUNT.format(count, kind, name, expected)
INVALID_COUNT(count, kind, name, expected) ==
    <<ToString(count), kind, name, ToString(expected)>>

\* ItemDoesNotExist.MESSAGE.format(kind, name)
MESSAGE(kind, name) == <<kind, name>>

-----------------------------------------------------------------------------
(* Name-based lookups *)

WithName(entities, name) == SelectSeq(entities, LAMBDA e : e.name = name)

GetNetwork_NoCountCheck(entities, network_name) ==
    LET networks == WithName(entities, network_name)
    IN  IF networks # <<>>
        THEN Return(networks[1])
        ELSE Raise("ItemDoesNotExist", MESSAGE("network", network_name))

GetNetwork(entities, network_name) ==
    LET networks == WithName(entities, network_name)
    IN  IF Len(networks) = 1
        THEN Return(networks[1])
        ELSE IF networks = <<>>
        THEN Raise("ItemDoesNotExist", MESSAGE("network", network_name))
        ELSE Raise("InvalidNumberOfItems",
                   INVALID_COUNT(Len(networks), "networks", network_name, 1))

GetImage_NoMissingCheck(entities, image_name) ==
    LET images == WithName(entities, image_name)
    IN  IF Len(images) = 1
        THEN Return(images[1])
        ELSE Raise("InvalidNumberOfItems",
                   INVALID_COUNT(Len(images), "images", image_name, 1))

GetImage_NoCountCheck(entities, image_name) ==
    LET images == WithName(entities, image_name)
    IN  IF images # <<>>
        THEN Return(images[1])
        ELSE Raise("ItemDoesNotExist", MESSAGE("image", image_name))

GetImage(entities, image_name) ==
    LET images == WithName(entities, image_name)
    IN  IF Len(images) = 1
        THEN Return(images[1])
        ELSE IF images = <<>>
        THEN Raise("ItemDoesNotExist", MESSAGE("image", image_name))
        ELSE Raise("InvalidNumberOfItems",
                   INVALID_COUNT(Len(images), "images", image_name, 1))

-----------------------------------------------------------------------------
(* The HTTP layer: NutanixApi.__api_call *)

StatusCodes == {200, 201, 202, 404, 500}

EXPECTED_STATUS_FOR_METHOD(method) ==
    CASE method = "get" -> OK
      [] method = "post" -> CREATED
      [] method = "delete" -> CREATED

\* response.raise_for_status(): raises HTTPError for a 4xx or 5xx status and
\* does nothing for any other status
RaisesForStatus(status_code) == status_code >= 400 /\ status_code < 600

\* "HTTPError" when the call raises, "json" when it returns response.json()
ApiCall(method, status_code) ==
    IF /\ status_code # EXPECTED_STATUS_FOR_METHOD(method)
       /\ RaisesForStatus(status_code)
    THEN "HTTPError"
    ELSE "json"

\* the resource methods of NutanixApi; storage_containers is defined by the
\* client, and no method of Nutanix and no step of prepare_env calls it
Ops == {"vms", "vms_create", "vms_clone", "vms_set_power_state", "tasks",
        "networks", "images", "images_create", "storage_containers"}

MethodOf(op) ==
    IF op \in {"vms", "tasks", "networks", "images", "storage_containers"}
    THEN "get" ELSE "post"

Called(op, status_code) ==
    [op |-> op, method |-> MethodOf(op), status |-> status_code,
     outcome |-> ApiCall(MethodOf(op), status_code)]

NoCall == [op |-> "", method |-> "", status |-> 0, outcome |-> ""]

-----------------------------------------------------------------------------
(* Construction of the client: NutanixApi.__init__ and NutanixApi.__connect *)

\* the statuses the login request is answered with
LoginStatusCodes == {200, 201, 401, 403, 500}

\* ConfigurationError.CONNECTION_PROBLEM / INVALID_CREDENTIALS
CONNECTION_PROBLEM == <<"Problem with connection to Nutanix API">>
INVALID_CREDENTIALS == <<"Invalid credentials">>

Connect_AnySuccessStatus(reachable, status_code) ==
    IF ~reachable
    THEN Raise("ConfigurationError", CONNECTION_PROBLEM)
    ELSE IF status_code >= 200 /\ status_code < 300
    THEN Return(<<>>)
    ELSE IF status_code = 401
    THEN Raise("ConfigurationError", INVALID_CREDENTIALS)
    ELSE Raise("NotImplementedError", <<"Invalid reposnse from Nutanix API">>)

\* self.session.post(.../j_spring_security_check) raises ConnectionError
\* when the endpoint cannot be reached (reachable = FALSE) and is answered
\* with status_code otherwise
Connect(reachable, status_code) ==
    IF ~reachable
    THEN Raise("ConfigurationError", CONNECTION_PROBLEM)
    ELSE IF status_code = 200
    THEN Return(<<>>)
    ELSE IF status_code = 401
    THEN Raise("ConfigurationError", INVALID_CREDENTIALS)
    ELSE Raise("NotImplementedError", <<"Invalid reposnse from Nutanix API">>)

-----------------------------------------------------------------------------
(* Searching VMs: NutanixApi.vms and Nutanix.get_vms *)

\* the hypervisor's searchString matching: query is part of the VM's name
Contains(name, query) ==
    \E i \in 1..(Len(name) - Len(query) + 1) :
        SubSeq(name, i, i + Len(query) - 1) = query

\* the payload of GET vms?searchString=query
Vms(all_vms, query) ==
    LET found == SelectSeq(all_vms, LAMBDA vm : Contains(vm.vmName, query))
    IN  [entities |-> found, metadata |-> [count |-> Len(found)]]

\* expected_count is <<>> for None and <<n>> for the int n
GetVms_FalsyExpected(data, query, expected_count) ==
    IF expected_count = <<>> \/ expected_count = <<0>>
    THEN Return(data.entities)
    ELSE IF data.metadata.count = expected_count[1]
    THEN Return(data.entities)
    ELSE IF data.metadata.count = 0
    THEN Raise("ItemDoesNotExist", MESSAGE("Vm", query))
    ELSE Raise("InvalidNumberOfItems",
               INVALID_COUNT(data.metadata.count, "vms", query,
                             expected_count[1]))

GetVms_AtLeast(data, query, expected_count) ==
    IF expected_count = <<>>
    THEN Return(data.entities)
    ELSE IF data.metadata.count >= expected_count[1]
    THEN Return(data.entities)
    ELSE IF data.metadata.count = 0
    THEN Raise("ItemDoesNotExist", MESSAGE("Vm", query))
    ELSE Raise("InvalidNumberOfItems",
               INVALID_COUNT(data.metadata.count, "vms", query,
                             expected_count[1]))

GetVms(data, query, expected_count) ==
    IF expected_count = <<>>
    THEN Return(data.entities)
    ELSE IF data.metadata.count = expected_count[1]
    THEN Return(data.entities)
    ELSE IF data.metadata.count = 0
    THEN Raise("ItemDoesNotExist", MESSAGE("Vm", query))
    ELSE Raise("InvalidNumberOfItems",
               INVALID_COUNT(data.metadata.count, "vms", query,
                             expected_count[1]))

\* {vm['vmName']: vm[vm_property] for vm in vms}: a later VM of the same
\* name replaces the value of an earlier one
GetVmsProperty(vms, vm_property) ==
    LET last(n) == CHOOSE i \in 1..Len(vms) :
                       /\ vms[i].vmName = n
                       /\ \A j \in (i + 1)..Len(vms) : vms[j].vmName # n
    IN  [n \in {vms[i].vmName : i \in 1..Len(vms)} |-> vms[last(n)][vm_property]]

\* The keys of that dict in the order its iteration yields them.  The order
\* is a fixed function of the dict; the model takes the order of insertion.
Keys(vms) ==
    LET F[i \in 0..Len(vms)] ==
            IF i = 0 THEN <<>>
            ELSE IF \E j \in 1..(i - 1) : vms[j].vmName = vms[i].vmName
                 THEN F[i - 1]
                 ELSE Append(F[i - 1], vms[i].vmName)
    IN  F[Len(vms)]

-----------------------------------------------------------------------------
(* Tasks: Nutanix.wait_for_task *)

TaskInfos ==
    [percentage_complete : {50, 100},
     progress_status : {"Running", "Succeeded", "Failed"}]

NoTaskInfo == [percentage_complete |-> 0, progress_status |-> ""]

NoTask == [op |-> "", state |-> "NONE"]

TaskOutcome_FailedGoesOn(info) ==
    IF info.progress_status = "Failed" THEN "POLLING"
    ELSE IF info.percentage_complete = 100
            /\ info.progress_status = "Succeeded" THEN "SUCCEEDED"
    ELSE "POLLING"

TaskOutcome_StatusOnly(info) ==
    IF info.progress_status = "Failed" THEN "FAILED"
    ELSE IF info.progress_status = "Succeeded" THEN "SUCCEEDED"
    ELSE "POLLING"

TaskOutcome_PercentOnly(info) ==
    IF info.progress_status = "Failed" THEN "FAILED"
    ELSE IF info.percentage_complete = 100 THEN "SUCCEEDED"
    ELSE "POLLING"

\* one iteration of the loop: raise TaskFailed, break, or sleep and go on
TaskOutcome(info) ==
    IF info.progress_status = "Failed" THEN "FAILED"
    ELSE IF /\ info.percentage_complete = 100
            /\ info.progress_status = "Succeeded" THEN "SUCCEEDED"
    ELSE "POLLING"

\* TaskFailed.MESSAGE.format(task_info)
TaskFailedArgs(info) ==
    <<ToString(info.percentage_complete), info.progress_status>>

-----------------------------------------------------------------------------
(* Cloning: Nutanix.vm_name, Nutanix.__prepare_clone, Nutanix.clone_vm *)

VmName_OneBased(number, role, vm_domain) ==
    role \o "-" \o ToString(number + 1) \o "-" \o vm_domain

\* "%s-%s-%s" % (role, number, vm_domain)
VmName(number, role, vm_domain) ==
    role \o "-" \o ToString(number) \o "-" \o vm_domain

PrepareClone(vm_name, ram, vcpu) ==
    [name |-> vm_name, memory_mb |-> ram * 1024, num_vcpus |-> vcpu,
     override_network_config |-> FALSE]

\* the specs of one role: for number in range(number_of_nodes)
RoleSpecs(node_type_config, vm_domain) ==
    [k \in 1..node_type_config.number_of_nodes |->
        PrepareClone(VmName(k - 1, node_type_config.role, vm_domain),
                     node_type_config.ram_size,
                     node_type_config.number_of_vcpu)]

RECURSIVE SpecList(_, _)
\* data['spec_list'] after the two loops over configs
SpecList(configs, vm_domain) ==
    IF configs = <<>> THEN <<>>
    ELSE RoleSpecs(Head(configs), vm_domain) \o SpecList(Tail(configs), vm_domain)

-----------------------------------------------------------------------------
(* The run's inputs: environment variables and configuration files *)

k8s_cluster_name == "demo"       \* os.environ[K8S_CLUSTER_ENV]
BASE_VM_NAME == "base"           \* os.environ[BASE_VM_ENV]
network_name == "net"            \* k8s_common_config['network_name']
os_image_name == "centos"        \* k8s_common_config['os_image_name']

SUPPORTED_NUMBER_OF_MASTERS == {1, 3, 5}
DEFAULT_NUMBER_OF_RAM == 4
DEFAULT_NUMBER_OF_VCPU == 2

NodeConfig(role, number_of_nodes) ==
    [role |-> role, number_of_nodes |-> number_of_nodes,
     number_of_vcpu |-> DEFAULT_NUMBER_OF_VCPU,
     ram_size |-> DEFAULT_NUMBER_OF_RAM]

\* what get_kubernetes_config returns: (master_config, worker_config)
Configs ==
    {<<NodeConfig("master", m), NodeConfig("worker", w)>> :
        m \in {n \in SUPPORTED_NUMBER_OF_MASTERS : n <= MaxMasters},
        w \in 0..MaxWorkers}

-----------------------------------------------------------------------------
(* The hypervisor: what the cluster holds when the run starts *)

\* the elements of pool whose index is in S, in pool order
Keep(pool, S) ==
    LET F[i \in 0..Len(pool)] ==
            IF i = 0 THEN <<>>
            ELSE IF i \in S THEN Append(F[i - 1], pool[i]) ELSE F[i - 1]
    IN  F[Len(pool)]

Listings(pool) == {Keep(pool, S) : S \in SUBSET (1..Len(pool))}

VmPool ==
    <<[uuid |-> "vm-a", vmName |-> "base", ipAddresses |-> <<>>],
      [uuid |-> "vm-b", vmName |-> "worker-0-base", ipAddresses |-> <<>>],
      [uuid |-> "vm-c", vmName |-> "master-0-demo", ipAddresses |-> <<>>]>>

ImagePool ==
    <<[name |-> "centos", vm_disk_id |-> "disk-a"],
      [name |-> "centos", vm_disk_id |-> "disk-b"],
      [name |-> "centos-6", vm_disk_id |-> "disk-c"]>>

NetworkPool ==
    <<[name |-> "net", uuid |-> "net-a"],
      [name |-> "net", uuid |-> "net-b"],
      [name |-> "other", uuid |-> "net-c"]>>

\* k new VMs called name, appended to the listing with fresh uuids
NewVms(all_vms, names) ==
    [k \in 1..Len(names) |->
        [uuid |-> "vm-" \o ToString(Len(all_vms) + k), vmName |-> names[k],
         ipAddresses |-> <<>>]]

NewImages(all_images, name, n) ==
    [k \in 1..n |->
        [name |-> name,
         vm_disk_id |-> "disk-" \o ToString(Len(all_images) + k)]]

Copies(name, n) == [k \in 1..n |-> name]

-----------------------------------------------------------------------------
(* The caller's frame *)

NoLocal ==
    [network |-> <<>>, os_image |-> <<>>, base_vm |-> <<>>,
     power_todo |-> <<>>, vms_with_ips |-> <<>>, names |-> <<>>,
     inventory_lines |-> <<>>,
     first |-> <<>>, second |-> <<>>]

NoLookup == [kind |-> "", entities |-> <<>>, name |-> "", result |-> <<>>]

HTTPError == [exc |-> "HTTPError", args |-> <<>>]

Exc(r) == [exc |-> r.exc, args |-> r.args]

\* an exception leaves the method and, uncaught, prepare_env
Abort(e) ==
    /\ exc' = e
    /\ pc' = "raised"
    /\ at' = ""

\* one request through __api_call
Request(op, status_code) ==
    /\ last_call' = Called(op, status_code)
    /\ calls' = IF op = "tasks" THEN calls ELSE [calls EXCEPT ![op] = @ + 1]

ImagePcs == {"get_or_create_os_image", "twice_image_1", "twice_image_2"}

VmPcs == {"get_or_create_vm", "twice_vm_1", "twice_vm_2"}

ReturnPc_NoBaseVm(p) ==
    CASE p = "get_or_create_os_image" -> "clone_vm"
      [] p = "get_or_create_vm" -> "clone_vm"
      [] p = "twice_image_1" -> "twice_image_2"
      [] p = "twice_vm_1" -> "twice_vm_2"
      [] p \in {"twice_image_2", "twice_vm_2"} -> "twice_done"

\* where the caller goes on when a get-or-create call returns
ReturnPc(p) ==
    CASE p = "get_or_create_os_image" -> "get_or_create_vm"
      [] p = "get_or_create_vm" -> "clone_vm"
      [] p = "twice_image_1" -> "twice_image_2"
      [] p = "twice_vm_1" -> "twice_vm_2"
      [] p \in {"twice_image_2", "twice_vm_2"} -> "twice_done"

AtEntry(p) == IF p \in ImagePcs \cup VmPcs THEN "search" ELSE ""

\* the caller's assignment of the returned value
Bound(p, v) ==
    CASE p = "get_or_create_os_image" -> [local EXCEPT !.os_image = <<v>>]
      [] p = "get_or_create_vm" -> [local EXCEPT !.base_vm = <<v>>]
      [] p \in {"twice_image_1", "twice_vm_1"} -> [local EXCEPT !.first = <<v>>]
      [] p \in {"twice_image_2", "twice_vm_2"} -> [local EXCEPT !.second = <<v>>]

GocReturn(v) ==
    /\ pc' = ReturnPc(pc)
    /\ at' = AtEntry(ReturnPc(pc))
    /\ local' = Bound(pc, v)
    /\ exc' = exc

\* the request counters of a client before its construction, and after it
NoCalls == [op \in (Ops \ {"tasks"}) \cup {"connect"} |-> 0]

Constructed == [NoCalls EXCEPT !["connect"] = 1]

InitCommon ==
    /\ exc = NoExc
    /\ task = NoTask
    /\ task_info = NoTaskInfo
    /\ polls = 0
    /\ last_call = NoCall
    /\ clone_data = [spec_list |-> <<>>]
    /\ power_sent = <<>>
    /\ inventory_file = <<>>

Init ==
    /\ InitCommon
    /\ calls = Constructed
    /\ hv_vms \in Listings(VmPool)
    /\ hv_images \in Listings(ImagePool)
    /\ cfg \in Configs
    /\ pc = "preflight"
    /\ at = ""
    /\ local = NoLocal
    /\ lk = NoLookup

\* a run of prepare_env that starts before the client is constructed
InitConnect ==
    /\ InitCommon
    /\ calls = NoCalls
    /\ hv_vms \in Listings(VmPool)
    /\ hv_images \in Listings(ImagePool)
    /\ cfg \in Configs
    /\ pc = "connect"
    /\ at = ""
    /\ local = NoLocal
    /\ lk = NoLookup

-----------------------------------------------------------------------------
(* prepare_env, up to the base image *)

\* nutanix = Nutanix(...): NutanixApi.__init__ sends the login request
ConnectStep ==
    /\ pc = "connect"
    /\ \E reachable \in BOOLEAN, status_code \in LoginStatusCodes :
        LET r == Connect(reachable, status_code)
        IN  /\ calls' = [calls EXCEPT !["connect"] = @ + 1]
            /\ last_call' = [op |-> "connect", method |-> "post",
                             status |-> IF reachable THEN status_code ELSE 0,
                             outcome |-> IF reachable THEN "response"
                                         ELSE "ConnectionError"]
            /\ IF r.exc # "none" THEN Abort(Exc(r))
               ELSE /\ pc' = "preflight"
                    /\ UNCHANGED <<at, exc>>
    /\ UNCHANGED <<hv_vms, hv_images, cfg, local, task, task_info, polls,
                   clone_data, power_sent, lk, inventory_file>>

\* nutanix.get_vms(k8s_cluster_name, expected_count=0)
Preflight ==
    /\ pc = "preflight"
    /\ \E status_code \in StatusCodes :
        LET r == GetVms(Vms(hv_vms, k8s_cluster_name), k8s_cluster_name, <<0>>)
        IN  /\ Request("vms", status_code)
            /\ IF ApiCall("get", status_code) = "HTTPError" THEN Abort(HTTPError)
               ELSE IF r.exc # "none" THEN Abort(Exc(r))
               ELSE /\ pc' = "get_network"
                    /\ UNCHANGED <<at, exc>>
    /\ UNCHANGED <<hv_vms, hv_images, cfg, local, task, task_info, polls,
                   clone_data, power_sent, lk, inventory_file>>

\* network = nutanix.get_network(network_name)
GetNetworkStep ==
    /\ pc = "get_network"
    /\ \E status_code \in StatusCodes, entities \in Listings(NetworkPool) :
        LET r == GetNetwork(entities, network_name)
        IN  /\ Request("networks", status_code)
            /\ IF ApiCall("get", status_code) = "HTTPError"
               THEN Abort(HTTPError) /\ local' = local
               ELSE IF r.exc # "none" THEN Abort(Exc(r)) /\ local' = local
               ELSE /\ pc' = "get_or_create_os_image"
                    /\ at' = "search"
                    /\ local' = [local EXCEPT !.network = <<r.value>>]
                    /\ exc' = exc
    /\ UNCHANGED <<hv_vms, hv_images, cfg, task, task_info, polls,
                   clone_data, power_sent, lk, inventory_file>>

-----------------------------------------------------------------------------
(* get_or_create_os_image *)

\* try: image = self.get_image(image_name); a found image is returned
ImageSearch ==
    /\ pc \in ImagePcs
    /\ at = "search"
    /\ \E status_code \in StatusCodes :
        LET r == GetImage(hv_images, os_image_name)
        IN  /\ Request("images", status_code)
            /\ IF ApiCall("get", status_code) = "HTTPError"
               THEN Abort(HTTPError) /\ local' = local
               ELSE IF r.exc = "ItemDoesNotExist"
               THEN at' = "create" /\ UNCHANGED <<pc, exc, local>>
               ELSE IF r.exc # "none" THEN Abort(Exc(r)) /\ local' = local
               ELSE GocReturn(r.value)
    /\ UNCHANGED <<hv_vms, hv_images, cfg, task, task_info, polls,
                   clone_data, power_sent, lk, inventory_file>>

\* except ItemDoesNotExist: create_image sends the request, then waits
ImageCreate ==
    /\ pc \in ImagePcs
    /\ at = "create"
    /\ \E status_code \in StatusCodes :
        /\ Request("images_create", status_code)
        /\ IF ApiCall("post", status_code) = "HTTPError"
           THEN Abort(HTTPError) /\ UNCHANGED <<task, polls>>
           ELSE /\ task' = [op |-> "images_create", state |-> "SUBMITTED"]
                /\ polls' = 0
                /\ at' = "wait"
                /\ UNCHANGED <<pc, exc>>
    /\ UNCHANGED <<hv_vms, hv_images, cfg, local, task_info, clone_data,
                   power_sent, lk, inventory_file>>

\* if not image: image = self.get_image(image_name); return image
ImageResearch ==
    /\ pc \in ImagePcs
    /\ at = "research"
    /\ \E status_code \in StatusCodes :
        LET r == GetImage(hv_images, os_image_name)
        IN  /\ Request("images", status_code)
            /\ IF ApiCall("get", status_code) = "HTTPError"
               THEN Abort(HTTPError) /\ local' = local
               ELSE IF r.exc # "none" THEN Abort(Exc(r)) /\ local' = local
               ELSE GocReturn(r.value)
    /\ UNCHANGED <<hv_vms, hv_images, cfg, task, task_info, polls,
                   clone_data, power_sent, lk, inventory_file>>

-----------------------------------------------------------------------------
(* get_or_create_vm *)

\* try: vms = self.get_vms(name, expected_count=1); found: return vms[0]
VmSearch ==
    /\ pc \in VmPcs
    /\ at = "search"
    /\ \E status_code \in StatusCodes :
        LET r == GetVms(Vms(hv_vms, BASE_VM_NAME), BASE_VM_NAME, <<1>>)
        IN  /\ Request("vms", status_code)
            /\ IF ApiCall("get", status_code) = "HTTPError"
               THEN Abort(HTTPError) /\ local' = local
               ELSE IF r.exc = "ItemDoesNotExist"
               THEN at' = "create" /\ UNCHANGED <<pc, exc, local>>
               ELSE IF r.exc # "none" THEN Abort(Exc(r)) /\ local' = local
               ELSE GocReturn(r.value[1])
    /\ UNCHANGED <<hv_vms, hv_images, cfg, task, task_info, polls,
                   clone_data, power_sent, lk, inventory_file>>

\* except ItemDoesNotExist: create_vm sends the request, then waits
VmCreate ==
    /\ pc \in VmPcs
    /\ at = "create"
    /\ \E status_code \in StatusCodes :
        /\ Request("vms_create", status_code)
        /\ IF ApiCall("post", status_code) = "HTTPError"
           THEN Abort(HTTPError) /\ UNCHANGED <<task, polls>>
           ELSE /\ task' = [op |-> "vms_create", state |-> "SUBMITTED"]
                /\ polls' = 0
                /\ at' = "wait"
                /\ UNCHANGED <<pc, exc>>
    /\ UNCHANGED <<hv_vms, hv_images, cfg, local, task_info, clone_data,
                   power_sent, lk, inventory_file>>

\* if not vms: vms = self.get_vms(name, expected_count=1); return vms[0]
VmResearch ==
    /\ pc \in VmPcs
    /\ at = "research"
    /\ \E status_code \in StatusCodes :
        LET r == GetVms(Vms(hv_vms, BASE_VM_NAME), BASE_VM_NAME, <<1>>)
        IN  /\ Request("vms", status_code)
            /\ IF ApiCall("get", status_code) = "HTTPError"
               THEN Abort(HTTPError) /\ local' = local
               ELSE IF r.exc # "none" THEN Abort(Exc(r)) /\ local' = local
               ELSE GocReturn(r.value[1])
    /\ UNCHANGED <<hv_vms, hv_images, cfg, task, task_info, polls,
                   clone_data, power_sent, lk, inventory_file>>

-----------------------------------------------------------------------------
(* clone_vm and wait_for_task *)

\* data = {'spec_list': [...]}; self.api.vms_clone(vm_uuid, data), then wait
CloneVm ==
    /\ pc = "clone_vm"
    /\ at = ""
    /\ clone_data' = [spec_list |-> SpecList(cfg, k8s_cluster_name)]
    /\ \E status_code \in StatusCodes :
        /\ Request("vms_clone", status_code)
        /\ IF ApiCall("post", status_code) = "HTTPError"
           THEN Abort(HTTPError) /\ UNCHANGED <<task, polls>>
           ELSE /\ task' = [op |-> "vms_clone", state |-> "SUBMITTED"]
                /\ polls' = 0
                /\ at' = "wait"
                /\ UNCHANGED <<pc, exc>>
    /\ UNCHANGED <<hv_vms, hv_images, cfg, local, task_info, power_sent, lk,
                   inventory_file>>

\* What a listing shows once the hypervisor reports the task Succeeded, as
\* the names of the new entities.  The cluster is the hypervisor's: a create
\* may show nothing yet, or show the name more than once; a clone may show
\* fewer VMs than asked for, or one more of a name.
Effects(op) ==
    LET names == [k \in 1..Len(clone_data.spec_list) |->
                     clone_data.spec_list[k].name]
    IN  CASE op = "images_create" ->
                {Copies(os_image_name, n) : n \in 0..MaxCopies}
          [] op = "vms_create" ->
                {Copies(BASE_VM_NAME, n) : n \in 0..MaxCopies}
          [] op = "vms_clone" ->
                {names, SubSeq(names, 1, Len(names) - 1),
                 names \o SubSeq(names, 1, 1)}

\* one iteration of the loop of wait_for_task
WaitForTask ==
    /\ at = "wait"
    /\ \E status_code \in StatusCodes, info \in TaskInfos,
          created \in Effects(task.op) :
        /\ Request("tasks", status_code)
        /\ IF ApiCall("get", status_code) = "HTTPError"
           THEN /\ Abort(HTTPError)
                /\ UNCHANGED <<hv_vms, hv_images, task, task_info, polls>>
           ELSE /\ task_info' = info
                /\ task' = [task EXCEPT !.state = TaskOutcome(info)]
                /\ CASE TaskOutcome(info) = "FAILED" ->
                          /\ Abort([exc |-> "TaskFailed",
                                    args |-> TaskFailedArgs(info)])
                          /\ UNCHANGED <<hv_vms, hv_images, polls>>
                     [] TaskOutcome(info) = "SUCCEEDED" ->
                          /\ hv_images' =
                                IF task.op = "images_create"
                                THEN hv_images \o
                                     NewImages(hv_images, os_image_name,
                                               Len(created))
                                ELSE hv_images
                          /\ hv_vms' =
                                IF task.op = "images_create" THEN hv_vms
                                ELSE hv_vms \o NewVms(hv_vms, created)
                          /\ pc' = IF task.op = "vms_clone"
                                   THEN "count_check" ELSE pc
                          /\ at' = IF task.op = "vms_clone"
                                   THEN "" ELSE "research"
                          /\ UNCHANGED <<exc, polls>>
                     [] TaskOutcome(info) = "POLLING" ->
                          /\ polls < MaxPolls
                          /\ polls' = polls + 1
                          /\ UNCHANGED <<hv_vms, hv_images, pc, at, exc>>
    /\ UNCHANGED <<cfg, local, clone_data, power_sent, lk, inventory_file>>

-----------------------------------------------------------------------------
(* prepare_env, after the clone *)

expected_count_MastersOnly == cfg[1].number_of_nodes

expected_count == cfg[1].number_of_nodes + cfg[2].number_of_nodes

\* nutanix.get_vms(k8s_cluster_name, expected_count=expected_count)
CountCheck ==
    /\ pc = "count_check"
    /\ \E status_code \in StatusCodes :
        LET r == GetVms(Vms(hv_vms, k8s_cluster_name), k8s_cluster_name,
                        <<expected_count>>)
        IN  /\ Request("vms", status_code)
            /\ IF ApiCall("get", status_code) = "HTTPError" THEN Abort(HTTPError)
               ELSE IF r.exc # "none" THEN Abort(Exc(r))
               ELSE /\ pc' = "power_fetch"
                    /\ UNCHANGED <<at, exc>>
    /\ UNCHANGED <<hv_vms, hv_images, cfg, local, task, task_info, polls,
                   clone_data, power_sent, lk, inventory_file>>

\* d.values() of the dict get_vms_property builds from vms
Values(vms, vm_property) ==
    [k \in 1..Len(Keys(vms)) |-> GetVmsProperty(vms, vm_property)[Keys(vms)[k]]]

\* nutanix.get_vms_property(k8s_cluster_name, 'uuid').values()
PowerFetch ==
    /\ pc = "power_fetch"
    /\ \E status_code \in StatusCodes :
        LET r == GetVms(Vms(hv_vms, k8s_cluster_name), k8s_cluster_name, <<>>)
            uuids == Values(r.value, "uuid")
        IN  /\ Request("vms", status_code)
            /\ IF ApiCall("get", status_code) = "HTTPError"
               THEN Abort(HTTPError) /\ local' = local
               ELSE /\ local' = [local EXCEPT !.power_todo = uuids]
                    /\ pc' = IF uuids = <<>> THEN "ip_poll" ELSE "power_on"
                    /\ UNCHANGED <<at, exc>>
    /\ polls' = 0
    /\ UNCHANGED <<hv_vms, hv_images, cfg, task, task_info, clone_data,
                   power_sent, lk, inventory_file>>

\* one iteration of the loop: nutanix.set_vm_power(vm_uuid, 'on')
PowerOn ==
    /\ pc = "power_on"
    /\ \E status_code \in StatusCodes :
        /\ Request("vms_set_power_state", status_code)
        /\ power_sent' = Append(power_sent, Head(local.power_todo))
        /\ IF ApiCall("post", status_code) = "HTTPError"
           THEN Abort(HTTPError) /\ UNCHANGED <<local, task>>
           ELSE /\ task' = [op |-> "vms_set_power_state",
                            state |-> "SUBMITTED"]
                /\ local' = [local EXCEPT !.power_todo = Tail(@)]
                /\ pc' = IF Tail(local.power_todo) = <<>>
                         THEN "ip_poll" ELSE "power_on"
                /\ UNCHANGED <<at, exc>>
    /\ UNCHANGED <<hv_vms, hv_images, cfg, task_info, polls, clone_data, lk,
                   inventory_file>>

\* all(vms_with_ips.values()): no VM of the mapping has an empty IP list
AllHaveIps_Unchecked(vms_with_ips) == TRUE

AllHaveIps_Any(vms_with_ips) ==
    \E name \in DOMAIN vms_with_ips : vms_with_ips[name] # <<>>

AllHaveIps(vms_with_ips) ==
    \A name \in DOMAIN vms_with_ips : vms_with_ips[name] # <<>>

\* the addresses the hypervisor gives the i-th VM of the cluster
Addresses(i) == <<"10.0.0." \o ToString(i), "192.168.0." \o ToString(i)>>

\* the cluster once the VMs with index in S have been given addresses
Assigned(all_vms, S) ==
    [i \in 1..Len(all_vms) |->
        IF i \in S /\ all_vms[i].ipAddresses = <<>>
        THEN [all_vms[i] EXCEPT !.ipAddresses = Addresses(i)]
        ELSE all_vms[i]]

Matching(all_vms, query) ==
    {i \in 1..Len(all_vms) : Contains(all_vms[i].vmName, query)}

\* vms_with_ips = nutanix.get_vms_property(k8s_cluster_name, 'ipAddresses')
\* and the test of the while loop that follows it
IpFetch ==
    /\ pc = "ip_poll"
    /\ \E status_code \in StatusCodes,
          S \in SUBSET Matching(hv_vms, k8s_cluster_name) :
        LET now == Assigned(hv_vms, S)
            r == GetVms(Vms(now, k8s_cluster_name), k8s_cluster_name, <<>>)
            vms_with_ips == GetVmsProperty(r.value, "ipAddresses")
        IN  /\ hv_vms' = now
            /\ Request("vms", status_code)
            /\ IF ApiCall("get", status_code) = "HTTPError"
               THEN Abort(HTTPError) /\ UNCHANGED <<local, polls>>
               ELSE /\ local' = [local EXCEPT !.vms_with_ips = vms_with_ips,
                                              !.names = Keys(r.value)]
                    /\ IF AllHaveIps(vms_with_ips)
                       THEN pc' = "inventory" /\ polls' = polls
                       ELSE /\ polls < MaxPolls
                            /\ polls' = polls + 1
                            /\ pc' = pc
                    /\ UNCHANGED <<at, exc>>
    /\ UNCHANGED <<hv_images, cfg, task, task_info, clone_data, power_sent,
                   lk, inventory_file>>

-----------------------------------------------------------------------------
(* The polling loops beyond MaxPolls iterations.  Neither loop has a limit: *)
(* "while True" in wait_for_task, "while not all(...)" in prepare_env.  The *)
(* counters polls and calls stay at the values they have reached.           *)

\* a further iteration of wait_for_task that reads a task still in progress
WaitOn ==
    /\ at = "wait"
    /\ polls = MaxPolls
    /\ \E status_code \in StatusCodes, info \in TaskInfos :
        /\ ApiCall("get", status_code) = "json"
        /\ TaskOutcome(info) = "POLLING"
        /\ last_call' = Called("tasks", status_code)
        /\ task_info' = info
        /\ task' = [task EXCEPT !.state = "POLLING"]
    /\ UNCHANGED <<hv_vms, hv_images, cfg, pc, at, local, exc, polls, calls,
                   clone_data, power_sent, lk, inventory_file>>

\* a further iteration of the IP-readiness loop that finds a VM without IP
IpOn ==
    /\ pc = "ip_poll"
    /\ polls = MaxPolls
    /\ \E status_code \in StatusCodes,
          S \in SUBSET Matching(hv_vms, k8s_cluster_name) :
        LET now == Assigned(hv_vms, S)
            r == GetVms(Vms(now, k8s_cluster_name), k8s_cluster_name, <<>>)
            vms_with_ips == GetVmsProperty(r.value, "ipAddresses")
        IN  /\ ApiCall("get", status_code) = "json"
            /\ ~AllHaveIps(vms_with_ips)
            /\ hv_vms' = now
            /\ last_call' = Called("vms", status_code)
            /\ local' = [local EXCEPT !.vms_with_ips = vms_with_ips,
                                      !.names = Keys(r.value)]
    /\ UNCHANGED <<hv_images, cfg, pc, at, exc, task, task_info, polls, calls,
                   clone_data, power_sent, lk, inventory_file>>

-----------------------------------------------------------------------------
(* prepare_env: the inventory *)

INVENTORY_CONST ==
    <<"\n[etcd:children]", "kube-master", "\n[k8s-cluster:children]",
      "kube-node", "kube-master", "\n[k8s-cluster:vars]",
      "ansible_become=true",
      "ansible_ssh_common_args=\"-o UserKnownHostsFile=/dev/null -o StrictHostKeyChecking=no\"">>

\* name.startswith(prefix)
StartsWith(name, prefix) ==
    /\ Len(name) >= Len(prefix)
    /\ SubSeq(name, 1, Len(prefix)) = prefix

RECURSIVE Join(_, _)
\* sep.join(lines)
Join(sep, lines) ==
    IF lines = <<>> THEN ""
    ELSE IF Len(lines) = 1 THEN lines[1]
    ELSE lines[1] \o sep \o Join(sep, Tail(lines))

InventoryLines_EveryNameANode(names, vms_with_ips) ==
    [k \in 1..Len(names) |->
        names[k] \o "    ansible_ssh_host=" \o vms_with_ips[names[k]][1]]
    \o <<"\n[kube-master]">>
    \o SelectSeq(names, LAMBDA name : StartsWith(name, "master"))
    \o <<"\n[kube-node]">>
    \o names
    \o INVENTORY_CONST

\* the lines built from vms_with_ips, whose names are iterated as names
InventoryLines(names, vms_with_ips) ==
    [k \in 1..Len(names) |->
        names[k] \o "    ansible_ssh_host=" \o vms_with_ips[names[k]][1]]
    \o <<"\n[kube-master]">>
    \o SelectSeq(names, LAMBDA name : StartsWith(name, "master"))
    \o <<"\n[kube-node]">>
    \o SelectSeq(names, LAMBDA name : StartsWith(name, "worker"))
    \o INVENTORY_CONST

\* inventory_lines = [...]; inventory.write('\n'.join(inventory_lines))
WriteInventory ==
    /\ pc = "inventory"
    /\ LET lines == InventoryLines(local.names, local.vms_with_ips)
       IN  /\ local' = [local EXCEPT !.inventory_lines = lines]
           /\ inventory_file' = <<Join("\n", lines)>>
    /\ pc' = "done"
    /\ UNCHANGED <<hv_vms, hv_images, cfg, at, exc, task, task_info, polls,
                   last_call, calls, clone_data, power_sent, lk>>

-----------------------------------------------------------------------------
(* A single name-based lookup on a listing given as input *)

LookupNames == {"net", "centos", "absent"}

SeqsUpTo(S, n) == UNION {[1..k -> S] : k \in 0..n}

\* the listings of at most MaxEntities entities drawn from pool
LookupInputs(kind, pool) ==
    {[kind |-> kind, entities |-> entities, name |-> name, result |-> <<>>] :
        entities \in SeqsUpTo({pool[i] : i \in 1..Len(pool)}, MaxEntities),
        name \in LookupNames}

InitLookup ==
    /\ InitCommon
    /\ calls = Constructed
    /\ hv_vms = <<>>
    /\ hv_images = <<>>
    /\ cfg \in {c \in Configs : c[2].number_of_nodes = 0}
    /\ pc = "lookup"
    /\ at = ""
    /\ local = NoLocal
    /\ lk \in LookupInputs("network", NetworkPool)
                \cup LookupInputs("image", ImagePool)

\* what the caller of a lookup gets
Looked(op, status_code, r) ==
    /\ Request(op, status_code)
    /\ lk' = [lk EXCEPT !.result =
                 IF ApiCall("get", status_code) = "HTTPError"
                 THEN <<Raise("HTTPError", <<>>)>> ELSE <<r>>]
    /\ pc' = "looked_up"
    /\ UNCHANGED <<hv_vms, hv_images, cfg, at, local, exc, task, task_info,
                   polls, clone_data, power_sent, inventory_file>>

\* nutanix.get_network(name)
LookupNetwork ==
    /\ pc = "lookup"
    /\ lk.kind = "network"
    /\ \E status_code \in StatusCodes :
        Looked("networks", status_code, GetNetwork(lk.entities, lk.name))

\* nutanix.get_image(name)
LookupImage ==
    /\ pc = "lookup"
    /\ lk.kind = "image"
    /\ \E status_code \in StatusCodes :
        Looked("images", status_code, GetImage(lk.entities, lk.name))

-----------------------------------------------------------------------------
(* Two get-or-create calls in sequence on one cluster *)

InitTwice ==
    /\ InitCommon
    /\ calls = Constructed
    /\ \/ pc = "twice_image_1" /\ hv_images \in Listings(ImagePool)
                                /\ hv_vms = <<>>
       \/ pc = "twice_vm_1" /\ hv_vms \in Listings(VmPool)
                             /\ hv_images = <<>>
    /\ cfg \in {c \in Configs : c[2].number_of_nodes = 0}
    /\ at = "search"
    /\ local = NoLocal
    /\ lk = NoLookup

-----------------------------------------------------------------------------
(* prepare_env from the power-on step, on a cluster given as input: what   *)
(* the searches for the domain list is the hypervisor's, whatever the       *)
(* count verification has seen before                                       *)

DomainPool ==
    <<[uuid |-> "vm-c", vmName |-> "master-0-demo", ipAddresses |-> <<>>],
      [uuid |-> "vm-d", vmName |-> "worker-0-demo", ipAddresses |-> <<>>],
      [uuid |-> "vm-e", vmName |-> "master-0-demo", ipAddresses |-> <<>>],
      [uuid |-> "vm-a", vmName |-> "base", ipAddresses |-> <<>>]>>

InitAfterClone ==
    /\ hv_vms \in Listings(DomainPool)
    /\ hv_images = SubSeq(ImagePool, 1, 1)
    /\ cfg \in Configs
    /\ pc = "power_fetch"
    /\ at = ""
    /\ local = [NoLocal EXCEPT !.network = <<NetworkPool[1]>>,
                               !.os_image = <<ImagePool[1]>>,
                               !.base_vm = <<VmPool[1]>>]
    /\ exc = NoExc
    /\ task = [op |-> "vms_clone", state |-> "SUCCEEDED"]
    /\ task_info = [percentage_complete |-> 100,
                    progress_status |-> "Succeeded"]
    /\ polls = 0
    /\ last_call = Called("vms", OK)
    /\ calls = [Constructed EXCEPT !["vms"] = 3, !["networks"] = 1,
                                   !["images"] = 1, !["vms_clone"] = 1]
    /\ clone_data = [spec_list |-> SpecList(cfg, k8s_cluster_name)]
    /\ power_sent = <<>>
    /\ lk = NoLookup
    /\ inventory_file = <<>>

-----------------------------------------------------------------------------
(* generate_cloud_config on a directory given as input *)

CLOUD_CONFIG_HEADER == Join("\n", <<"#cloud-config", "users:">>)

\* CLOUD_CONFIG_USER_PART.format(username=username, ssh_key=ssh_key)
CLOUD_CONFIG_USER_PART(username, ssh_key) ==
    Join("\n", <<"  - name: " \o username,
                 "    shell: /bin/bash",
                 "    sudo: ['ALL=(ALL) NOPASSWD:ALL']",
                 "    lock_passwd: true",
                 "    ssh-authorized-keys:",
                 "      - " \o ssh_key>>)

\* the character classes [a-z_] and [a-z0-9_-] of SSH_KEY_FILE_PATTERN
FirstChars ==
    {"a", "b", "c", "d", "e", "f", "g", "h", "i", "j", "k", "l", "m", "n",
     "o", "p", "q", "r", "s", "t", "u", "v", "w", "x", "y", "z", "_"}

NextChars ==
    FirstChars \cup {"0", "1", "2", "3", "4", "5", "6", "7", "8", "9", "-"}

\* SSH_KEY_FILE_PATTERN.match(file_name): the pattern
\* (?P<username>[a-z_][a-z0-9_-]*[$]?)\.pub is matched at the start of
\* file_name and need not reach its end.  <<>> for no match, <<username>>
\* for a match.  The starred class ends at the first character outside it,
\* as neither "$" nor "." belongs to it.
SSH_KEY_FILE_PATTERN(file_name) ==
    LET n == Len(file_name)
        Ch(i) == SubSeq(file_name, i, i)
    IN  IF n = 0 \/ Ch(1) \notin FirstChars THEN <<>>
        ELSE LET k == CHOOSE j \in 1..n :
                          /\ \A i \in 2..j : Ch(i) \in NextChars
                          /\ j < n => Ch(j + 1) \notin NextChars
                 u == IF k < n /\ Ch(k + 1) = "$" THEN k + 1 ELSE k
             IN  IF u + 4 <= n /\ SubSeq(file_name, u + 1, u + 4) = ".pub"
                 THEN <<SubSeq(file_name, 1, u)>>
                 ELSE <<>>

Whitespace == {" ", "\t", "\n", "\r"}

\* text.strip()
Strip(text) ==
    LET n == Len(text)
        black == {i \in 1..n : SubSeq(text, i, i) \notin Whitespace}
    IN  IF black = {} THEN ""
        ELSE SubSeq(text, CHOOSE i \in black : \A j \in black : i <= j,
                          CHOOSE i \in black : \A j \in black : j <= i)

\* the body of generate_cloud_config over os.listdir(ssh_keys_directory),
\* each file given with what reading it yields
GenerateCloudConfig(listing) ==
    LET parts[i \in 0..Len(listing)] ==
            IF i = 0 THEN <<>>
            ELSE LET pattern_match == SSH_KEY_FILE_PATTERN(listing[i].file_name)
                 IN  IF pattern_match = <<>> THEN parts[i - 1]
                     ELSE Append(parts[i - 1],
                                 CLOUD_CONFIG_USER_PART(
                                     pattern_match[1],
                                     Strip(listing[i].contents)))
        cloud_config_parts == parts[Len(listing)]
    IN  IF cloud_config_parts = <<>>
        THEN Raise("MissingKeys",
                   <<"(?P<username>[a-z_][a-z0-9_-]*[$]?)\\.pub">>)
        ELSE Return(Join("\n", <<CLOUD_CONFIG_HEADER>> \o cloud_config_parts))

FilePool ==
    <<[file_name |-> "alice.pub", contents |-> " KEY_A\n"],
      [file_name |-> "bob$.pub", contents |-> "KEY_B"],
      [file_name |-> "alice.pub.bak", contents |-> "KEY_OLD\n"],
      [file_name |-> "Carol.pub", contents |-> "KEY_C"],
      [file_name |-> "notes.txt", contents |-> "text"]>>

\* os.listdir: at most MaxFiles files of the pool, each once, in any order
DirListings ==
    {listing \in SeqsUpTo({FilePool[i] : i \in 1..Len(FilePool)}, MaxFiles) :
        \A i, j \in 1..Len(listing) : listing[i] = listing[j] => i = j}

InitCloud ==
    /\ InitCommon
    /\ calls = NoCalls
    /\ hv_vms = <<>>
    /\ hv_images = <<>>
    /\ cfg \in {c \in Configs : c[2].number_of_nodes = 0}
    /\ pc = "cloud_config"
    /\ at = ""
    /\ local = NoLocal
    /\ lk \in {[kind |-> "cloud_config", entities |-> listing, name |-> "",
                result |-> <<>>] : listing \in DirListings}

\* cloud_config = generate_cloud_config(ssh_keys_directory)
CloudConfig ==
    /\ pc = "cloud_config"
    /\ lk' = [lk EXCEPT !.result = <<GenerateCloudConfig(lk.entities)>>]
    /\ pc' = "cloud_done"
    /\ UNCHANGED <<hv_vms, hv_images, cfg, at, local, exc, task, task_info,
                   polls, last_call, calls, clone_data, power_sent,
                   inventory_file>>

-----------------------------------------------------------------------------
(* Specifications *)

\* one run of prepare_env
Next ==
    \/ Preflight
    \/ GetNetworkStep
    \/ ImageSearch
    \/ ImageCreate
    \/ ImageResearch
    \/ VmSearch
    \/ VmCreate
    \/ VmResearch
    \/ CloneVm
    \/ WaitForTask
    \/ CountCheck
    \/ PowerFetch
    \/ PowerOn
    \/ IpFetch
    \/ WriteInventory

Spec == Init /\ [][Next]_vars

\* one run of prepare_env from the construction of the client
NextConnect ==
    \/ ConnectStep
    \/ Preflight
    \/ GetNetworkStep
    \/ ImageSearch
    \/ ImageCreate
    \/ ImageResearch
    \/ VmSearch
    \/ VmCreate
    \/ VmResearch
    \/ CloneVm
    \/ WaitForTask
    \/ CountCheck
    \/ PowerFetch
    \/ PowerOn
    \/ IpFetch
    \/ WriteInventory

SpecConnect == InitConnect /\ [][NextConnect]_vars

\* one lookup
NextLookup ==
    \/ LookupNetwork
    \/ LookupImage

SpecLookup == InitLookup /\ [][NextLookup]_vars

\* get_or_create_os_image twice, or get_or_create_vm twice
NextTwice ==
    \/ ImageSearch
    \/ ImageCreate
    \/ ImageResearch
    \/ VmSearch
    \/ VmCreate
    \/ VmResearch
    \/ WaitForTask

SpecTwice == InitTwice /\ [][NextTwice]_vars

\* one run of prepare_env with polling loops of any length; prepare_env is
\* one sequential thread that goes on whenever it has a step to take
NextLive ==
    \/ Preflight
    \/ GetNetworkStep
    \/ ImageSearch
    \/ ImageCreate
    \/ ImageResearch
    \/ VmSearch
    \/ VmCreate
    \/ VmResearch
    \/ CloneVm
    \/ WaitForTask
    \/ WaitOn
    \/ CountCheck
    \/ PowerFetch
    \/ PowerOn
    \/ IpFetch
    \/ IpOn
    \/ WriteInventory

\* the cluster holds the image and the base VM, or lacks either
InitLive ==
    /\ Init
    /\ hv_vms \in {<<>>, SubSeq(VmPool, 1, 1)}
    /\ hv_images \in {<<>>, SubSeq(ImagePool, 1, 1)}
    /\ cfg = <<NodeConfig("master", 1), NodeConfig("worker", 1)>>

SpecLive == InitLive /\ [][NextLive]_vars /\ WF_vars(NextLive)

\* prepare_env from the power-on step
NextAfterClone ==
    \/ PowerFetch
    \/ PowerOn
    \/ IpFetch
    \/ WriteInventory

SpecAfterClone == InitAfterClone /\ [][NextAfterClone]_vars

\* one call of generate_cloud_config
NextCloud == CloudConfig

SpecCloud == InitCloud /\ [][NextCloud]_vars

-----------------------------------------------------------------------------
(* Properties *)

\* the number of entities of a listing that carry exactly this name
NameCount(entities, name) ==
    Cardinality({k \in 1..Len(entities) : entities[k].name = name})

\* the step sent a request that is no status fetch of a task
Issued(op) == calls'[op] = calls[op] + 1

\* the step's request was answered with a payload, not with an HTTPError
Answered == last_call'.outcome = "json"

MutatingOps == {"images_create", "vms_create", "vms_clone",
                "vms_set_power_state"}

\* C1: get_network(name) and get_image(name), on any listing the hypervisor
\* answers with: exactly one entity of that exact name is returned; none
\* raises ItemDoesNotExist; more than one raises InvalidNumberOfItems whose
\* message carries the actual count and the expected count 1.
C1_NameLookup ==
    (pc = "looked_up" /\ lk.result[1].exc # "HTTPError") =>
        LET r == lk.result[1]
            n == NameCount(lk.entities, lk.name)
        IN  /\ n = 1 =>
                /\ r.exc = "none"
                /\ \E k \in 1..Len(lk.entities) :
                       lk.entities[k].name = lk.name /\ r.value = lk.entities[k]
            /\ n = 0 => r.exc = "ItemDoesNotExist"
            /\ n > 1 =>
                /\ r.exc = "InvalidNumberOfItems"
                /\ r.args[1] = ToString(n)
                /\ r.args[4] = "1"

\* a listing of three images, two of them of the name looked up, was refused
C1_Witness ==
    /\ pc = "looked_up"
    /\ lk.kind = "image"
    /\ Len(lk.entities) = 3
    /\ NameCount(lk.entities, lk.name) = 2
    /\ lk.result[1].exc = "InvalidNumberOfItems"

\* One step of two get-or-create calls in sequence, taken while no create
\* was requested and the cluster holds exactly one resource of the name
\* (one): it is a search that returns that resource (found) to the caller.
Idempotent(first, second, search, create, one, found) ==
    (pc \in {first, second} /\ one /\ calls[create] = 0 /\ Answered) =>
        /\ at = "search"
        /\ Issued(search)
        /\ calls'[search] = IF pc = first THEN 1 ELSE 2
        /\ calls'[create] = 0
        /\ exc' = NoExc
        /\ pc' = IF pc = first THEN second ELSE "twice_done"
        /\ IF pc = first THEN local'.first = <<found>>
           ELSE local'.second = <<found>> /\ local'.second = local'.first

\* C2: get_or_create_os_image and get_or_create_vm, called twice in sequence
\* on a cluster that holds exactly one resource of the requested name, send
\* no create request in either call, search once per call, and return that
\* one resource both times.
C2_Idempotent ==
    [][/\ Idempotent("twice_image_1", "twice_image_2", "images",
                     "images_create",
                     NameCount(hv_images, os_image_name) = 1,
                     CHOOSE e \in {hv_images[i] : i \in 1..Len(hv_images)} :
                         e.name = os_image_name)
       /\ Idempotent("twice_vm_1", "twice_vm_2", "vms", "vms_create",
                     Cardinality({i \in 1..Len(hv_vms) :
                                     hv_vms[i].vmName = BASE_VM_NAME}) = 1,
                     CHOOSE e \in {hv_vms[i] : i \in 1..Len(hv_vms)} :
                         e.vmName = BASE_VM_NAME)
      ]_vars

\* C3: each status fetch of wait_for_task that is answered ends the loop
\* with TaskFailed, carrying the payload, exactly when the payload's status
\* is 'Failed'; ends it normally exactly when the payload reports 100
\* percent and 'Succeeded'; and in every other case stays in the loop, in
\* POLLING, for another fetch.
C3_WaitForTask ==
    [][(at = "wait" /\ Answered) =>
        LET failed == task_info'.progress_status = "Failed"
            succeeded == /\ task_info'.percentage_complete = 100
                         /\ task_info'.progress_status = "Succeeded"
        IN  /\ failed <=> exc'.exc = "TaskFailed"
            /\ failed => /\ task'.state = "FAILED"
                         /\ pc' = "raised"
                         /\ exc'.args = <<ToString(task_info'.percentage_complete),
                                          task_info'.progress_status>>
            /\ (~failed /\ succeeded) <=> (at' # "wait" /\ exc' = NoExc)
            /\ (~failed /\ succeeded) => task'.state = "SUCCEEDED"
            /\ (~failed /\ ~succeeded) <=> (at' = "wait")
            /\ (~failed /\ ~succeeded) =>
                   task'.state = "POLLING" /\ polls' = polls + 1
      ]_vars

\* a fetch answered 'Succeeded' at 50 percent left the loop polling
C3_Witness ==
    /\ at = "wait"
    /\ task.state = "POLLING"
    /\ task_info.progress_status = "Succeeded"
    /\ task_info.percentage_complete = 50

\* C4: when the pre-flight search for the domain name is answered with one
\* or more VMs, prepare_env ends with InvalidNumberOfItems, and no image
\* create, VM create, clone or power change was requested in the run.
C4_Preflight ==
    [][(/\ pc = "preflight"
        /\ Answered
        /\ \E i \in 1..Len(hv_vms) : Contains(hv_vms[i].vmName, k8s_cluster_name))
       => /\ pc' = "raised"
          /\ exc'.exc = "InvalidNumberOfItems"
          /\ exc'.args[4] = "0"
          /\ \A op \in MutatingOps : calls'[op] = 0
          /\ hv_vms' = hv_vms /\ hv_images' = hv_images
      ]_vars

\* the pre-flight check found a VM of the domain and ended the run
C4_Witness ==
    /\ pc = "raised"
    /\ exc.exc = "InvalidNumberOfItems"
    /\ exc.args = <<"1", "vms", k8s_cluster_name, "0">>
    /\ calls["vms"] = 1

\* One step of a get-or-create call whose search found nothing (zero holds
\* when the cluster has no match for the search): the create request is
\* sent once, its task is waited for, and a second search that again finds
\* nothing raises ItemDoesNotExist.
CreatesOnce(goc, create, zero, kind, name) ==
    /\ (pc = goc /\ at = "search" /\ Answered /\ zero) =>
           at' = "create" /\ pc' = pc /\ exc' = NoExc
    /\ (pc = goc /\ at = "create") =>
           Issued(create) /\ calls'[create] = 1
    /\ (pc = goc /\ at = "create" /\ Answered) =>
           at' = "wait" /\ task' = [op |-> create, state |-> "SUBMITTED"]
    /\ (pc = goc /\ at = "research") =>
           /\ task = [op |-> create, state |-> "SUCCEEDED"]
           /\ calls[create] = 1
           /\ calls'[create] = 1
    /\ (pc = goc /\ at = "research" /\ Answered /\ zero) =>
           /\ pc' = "raised"
           /\ exc' = [exc |-> "ItemDoesNotExist", args |-> <<kind, name>>]

\* C5: in get_or_create_os_image and get_or_create_vm, a first search with
\* no match is followed by one create request, whose task is SUCCEEDED
\* before the second search; a second search with no match raises
\* ItemDoesNotExist, and after an exception no request is sent at all.
C5_CreateOnce ==
    [][/\ CreatesOnce("get_or_create_os_image", "images_create",
                      NameCount(hv_images, os_image_name) = 0,
                      "image", os_image_name)
       /\ CreatesOnce("get_or_create_vm", "vms_create",
                      \A i \in 1..Len(hv_vms) :
                          ~Contains(hv_vms[i].vmName, BASE_VM_NAME),
                      "Vm", BASE_VM_NAME)
       /\ pc # "raised"
      ]_vars

\* the base VM was created, the task succeeded, and the VM was still not
\* listed
C5_Witness ==
    /\ pc = "raised"
    /\ exc = [exc |-> "ItemDoesNotExist", args |-> <<"Vm", BASE_VM_NAME>>]
    /\ calls["vms_create"] = 1
    /\ task = [op |-> "vms_create", state |-> "SUCCEEDED"]

\* One search of a get-or-create call that found count matches, count > 1:
\* InvalidNumberOfItems with the count and the expected number 1; no create
\* request is sent by the step, and none was sent before a first search.
TooMany(goc, create, count, kind, name) ==
    (pc = goc /\ at \in {"search", "research"} /\ Answered /\ count > 1) =>
        /\ pc' = "raised"
        /\ exc' = [exc |-> "InvalidNumberOfItems",
                   args |-> <<ToString(count), kind, name, "1">>]
        /\ calls'[create] = calls[create]
        /\ at = "search" => calls'[create] = 0

\* C6: in get_or_create_os_image and get_or_create_vm, a search (the first,
\* or the one after the creation) that finds more than one match raises
\* InvalidNumberOfItems naming the actual count and the expected count 1;
\* at the first search no create request has been sent.
C6_TooMany ==
    [][/\ TooMany("get_or_create_os_image", "images_create",
                  NameCount(hv_images, os_image_name), "images",
                  os_image_name)
       /\ TooMany("get_or_create_vm", "vms_create",
                  Cardinality({i \in 1..Len(hv_vms) :
                                  Contains(hv_vms[i].vmName, BASE_VM_NAME)}),
                  "vms", BASE_VM_NAME)
      ]_vars

\* the image was created once and then listed twice
C6_Witness ==
    /\ pc = "raised"
    /\ exc = [exc |-> "InvalidNumberOfItems",
              args |-> <<"2", "images", os_image_name, "1">>]
    /\ calls["images_create"] = 1
    /\ calls["images"] = 2

\* the decimal numeral of a small index
Numeral(k) == <<"0", "1", "2", "3", "4", "5", "6", "7", "8", "9">>[k + 1]

\* C7: the clone request carries one specification per node, the masters
\* first: the k-th node of a role (k from 0) is named <role>-<k>-<domain>;
\* there is one clone request in a run, and clone_vm has returned only
\* when the task of that request is SUCCEEDED.
C7_CloneSpecs ==
    LET masters == cfg[1].number_of_nodes
        workers == cfg[2].number_of_nodes
        spec_list == clone_data.spec_list
    IN  /\ calls["vms_clone"] <= 1
        /\ calls["vms_clone"] = 1 =>
            /\ Len(spec_list) = masters + workers
            /\ \A k \in 0..(masters - 1) :
                   spec_list[k + 1].name =
                       "master-" \o Numeral(k) \o "-" \o k8s_cluster_name
            /\ \A k \in 0..(workers - 1) :
                   spec_list[masters + k + 1].name =
                       "worker-" \o Numeral(k) \o "-" \o k8s_cluster_name
        /\ pc = "count_check" =>
            /\ calls["vms_clone"] = 1
            /\ task = [op |-> "vms_clone", state |-> "SUCCEEDED"]
            /\ task_info = [percentage_complete |-> 100,
                            progress_status |-> "Succeeded"]
        /\ pc \in {"power_fetch", "power_on", "ip_poll", "inventory", "done"}
               => calls["vms_clone"] = 1

\* one master and two workers were cloned in one request, and clone_vm
\* has returned
C7_Witness ==
    /\ pc = "count_check"
    /\ [k \in 1..Len(clone_data.spec_list) |-> clone_data.spec_list[k].name]
           = <<"master-0-demo", "worker-0-demo", "worker-1-demo">>

\* C8: every fetch of the IP-readiness poll that is answered takes the
\* mapping from the VMs the cluster now lists for the domain, and the loop
\* is left exactly when no VM of that mapping has an empty list of
\* addresses; otherwise the poll goes on.
C8_IpPoll ==
    [][(pc = "ip_poll" /\ Answered) =>
        LET listed == {i \in 1..Len(hv_vms') :
                          Contains(hv_vms'[i].vmName, k8s_cluster_name)}
            ready == \A i \in listed : hv_vms'[i].ipAddresses # <<>>
        IN  /\ Issued("vms")
            /\ DOMAIN local'.vms_with_ips = {hv_vms'[i].vmName : i \in listed}
            /\ \A i \in listed :
                   local'.vms_with_ips[hv_vms'[i].vmName]
                       = hv_vms'[i].ipAddresses
            /\ ready <=> pc' = "inventory"
            /\ ~ready <=> pc' = "ip_poll"
      ]_vars

\* after a fetch, one VM has addresses and another has none: still polling
C8_Witness ==
    /\ pc = "ip_poll"
    /\ polls >= 1
    /\ \E name \in DOMAIN local.vms_with_ips : local.vms_with_ips[name] = <<>>
    /\ \E name \in DOMAIN local.vms_with_ips : local.vms_with_ips[name] # <<>>

\* the step sends a request other than a status fetch of a task
IssuesCall == \E op \in DOMAIN calls : Issued(op)

WaitedOps == {"images_create", "vms_create", "vms_clone"}

C10_OnlyExpectedStatus ==
    (/\ last_call # NoCall
     /\ last_call.status #
            IF last_call.op \in {"vms", "tasks", "networks", "images"}
            THEN 200 ELSE 201)
    => (last_call.outcome = "HTTPError" /\ pc = "raised")

\* every step before the inventory has completed, and without an exception
Provisioned ==
    /\ exc = NoExc
    /\ local.network # <<>> /\ local.os_image # <<>> /\ local.base_vm # <<>>
    /\ calls["vms_clone"] = 1
    /\ Cardinality({i \in 1..Len(hv_vms) :
                       Contains(hv_vms[i].vmName, k8s_cluster_name)})
           = cfg[1].number_of_nodes + cfg[2].number_of_nodes
    /\ Len(power_sent) = cfg[1].number_of_nodes + cfg[2].number_of_nodes
    /\ \A name \in DOMAIN local.vms_with_ips :
           local.vms_with_ips[name] # <<>>

\* C11: the inventory file is written at most once in a run of prepare_env,
\* by a step that starts with every provisioning step completed without an
\* exception; a run that ended with an exception has written no file.
C11_InventoryLast ==
    /\ [](inventory_file # <<>> => (pc = "done" /\ Provisioned))
    /\ [](pc = "inventory" => Provisioned)
    /\ [](exc # NoExc => inventory_file = <<>>)
    /\ [][inventory_file' # inventory_file =>
            (inventory_file = <<>> /\ pc = "inventory" /\ Provisioned)]_vars

\* a run of one master and two workers has written its inventory
C11_Witness ==
    /\ pc = "done"
    /\ inventory_file # <<>>
    /\ Len(power_sent) = 3

\* the number of VMs the cluster lists for query
Listed(query) ==
    Cardinality({i \in 1..Len(hv_vms) : Contains(hv_vms[i].vmName, query)})

\* the step is a call of get_vms(query, expected_count=n) whose exceptions
\* the caller does not catch, and the request was answered
ExactCountSearch(query, n) ==
    /\ Answered
    /\ \/ pc = "preflight" /\ query = k8s_cluster_name /\ n = 0
       \/ pc = "count_check" /\ query = k8s_cluster_name
             /\ n = cfg[1].number_of_nodes + cfg[2].number_of_nodes
       \/ pc = "get_or_create_vm" /\ at = "research"
             /\ query = BASE_VM_NAME /\ n = 1

\* C12 as stated: get_vms with an expected count returns exactly when the
\* reported count equals it, and raises InvalidNumberOfItems for every
\* other count.
C12_CountOrInvalidNumber ==
    [][\A query \in {k8s_cluster_name, BASE_VM_NAME}, n \in 0..9 :
          ExactCountSearch(query, n) =>
              /\ Listed(query) = n <=> exc' = NoExc
              /\ Listed(query) # n => exc'.exc = "InvalidNumberOfItems"
      ]_vars

\* C12, amended: get_vms with an expected count returns exactly when the
\* reported count equals it; for a different count it raises
\* ItemDoesNotExist when the count is 0 and InvalidNumberOfItems, with the
\* count and the expected count, otherwise.
C12_CountOrException ==
    [][\A query \in {k8s_cluster_name, BASE_VM_NAME}, n \in 0..9 :
          ExactCountSearch(query, n) =>
              /\ Listed(query) = n <=> exc' = NoExc
              /\ Listed(query) = n => pc' # "raised"
              /\ (Listed(query) # n /\ Listed(query) = 0) =>
                     /\ pc' = "raised"
                     /\ exc' = [exc |-> "ItemDoesNotExist",
                                args |-> <<"Vm", query>>]
              /\ (Listed(query) # n /\ Listed(query) # 0) =>
                     /\ pc' = "raised"
                     /\ exc' = [exc |-> "InvalidNumberOfItems",
                                args |-> <<ToString(Listed(query)), "vms",
                                           query, ToString(n)>>]
      ]_vars

\* the clone succeeded, no VM of the domain was listed, and the
\* verification ended with ItemDoesNotExist
C12_Witness ==
    /\ pc = "raised"
    /\ calls["vms_clone"] = 1
    /\ task = [op |-> "vms_clone", state |-> "SUCCEEDED"]
    /\ exc = [exc |-> "ItemDoesNotExist", args |-> <<"Vm", k8s_cluster_name>>]

\* C13: the storage container named in the configuration is looked up by name
\* (a storage_containers request, exactly one match or an exception) before
\* the request that creates an image in it is sent.
C13_ContainerResolvedFirst ==
    [][Issued("images_create") => calls["storage_containers"] >= 1]_vars

\* a request of a resource operation has been sent
ResourceCalls == \E op \in Ops \ {"tasks"} : calls[op] > 0

HasKeyFileForm(file_name) ==
    /\ SSH_KEY_FILE_PATTERN(file_name) # <<>>
    /\ Len(file_name) = Len(SSH_KEY_FILE_PATTERN(file_name)[1]) + 4

\* C15: generate_cloud_config over any directory listing raises MissingKeys
\* if no file name has the form <username>.pub; otherwise it returns the
\* header "#cloud-config\nusers:" followed by one user block per file of
\* that form, and by none for any other file, each block holding the file's
\* user name and its contents with the surrounding whitespace trimmed.
C15_CloudConfig ==
    pc = "cloud_done" =>
        LET keys == SelectSeq(lk.entities,
                              LAMBDA f : HasKeyFileForm(f.file_name))
            blocks == [i \in 1..Len(keys) |->
                          CLOUD_CONFIG_USER_PART(
                              SubSeq(keys[i].file_name, 1,
                                     Len(keys[i].file_name) - 4),
                              Strip(keys[i].contents))]
            r == lk.result[1]
        IN  IF keys = <<>> THEN r.exc = "MissingKeys"
            ELSE /\ r.exc = "none"
                 /\ r.value = Join("\n", <<CLOUD_CONFIG_HEADER>> \o blocks)

\* the names of the mapping whose first characters are prefix
Prefixed(vms_with_ips, prefix) ==
    {name \in DOMAIN vms_with_ips :
        Len(name) >= Len(prefix) /\ SubSeq(name, 1, Len(prefix)) = prefix}

\* the lines i..j of the document list exactly the names of group, each once
Lists(lines, i, j, group) ==
    /\ j - i + 1 = Cardinality(group)
    /\ {lines[k] : k \in i..j} = group

\* C16: the inventory written for a mapping of VM name to IP list starts
\* with exactly one "<name>    ansible_ssh_host=<first ip>" line per name of
\* the mapping, goes on with "[kube-master]" and exactly the names starting
\* with "master", then "[kube-node]" and exactly the names starting with
\* "worker", and ends with the fixed group sections; no name is in both
\* groups; the file holds these lines joined by line breaks.
C16_Inventory ==
    pc = "done" =>
        LET lines == local.inventory_lines
            ips == local.vms_with_ips
            n == Cardinality(DOMAIN ips)
            masters == Prefixed(ips, "master")
            workers == Prefixed(ips, "worker")
            m == Cardinality(masters)
            w == Cardinality(workers)
        IN  /\ inventory_file = <<Join("\n", lines)>>
            /\ Len(lines) = n + 1 + m + 1 + w + Len(INVENTORY_CONST)
            /\ Lists(lines, 1, n,
                     {name \o "    ansible_ssh_host=" \o ips[name][1] :
                         name \in DOMAIN ips})
            /\ lines[n + 1] = "\n[kube-master]"
            /\ Lists(lines, n + 2, n + 1 + m, masters)
            /\ lines[n + m + 2] = "\n[kube-node]"
            /\ Lists(lines, n + m + 3, n + m + 2 + w, workers)
            /\ SubSeq(lines, n + m + w + 3, Len(lines)) = INVENTORY_CONST
            /\ masters \cap workers = {}

C16_Witness ==
    /\ pc = "done"
    /\ Cardinality(Prefixed(local.vms_with_ips, "master")) = 1
    /\ Cardinality(Prefixed(local.vms_with_ips, "worker")) = 2
    /\ inventory_file # <<>>

\* the uuids of the VMs the search for query lists
ListedUuids(query) ==
    {hv_vms[i].uuid : i \in {j \in 1..Len(hv_vms) :
                                 Contains(hv_vms[j].vmName, query)}}

\* C17: the clone request is sent only when the network, the OS image and
\* the base VM have each been resolved to one entity; a power-on request is
\* sent only after the clone task was reported SUCCEEDED and the search for
\* the domain was answered with exactly master count + worker count VMs;
\* the first fetch of the IP-readiness poll is sent only after a power-on
\* request was sent for the VMs of the domain.
C17_Prerequisites ==
    /\ [][Issued("vms_clone") =>
            /\ Len(local.network) = 1 /\ local.network[1].name = network_name
            /\ Len(local.os_image) = 1
            /\ local.os_image[1].name = os_image_name
            /\ NameCount(hv_images, os_image_name) = 1
            /\ Len(local.base_vm) = 1
            /\ Listed(BASE_VM_NAME) = 1
            /\ ListedUuids(BASE_VM_NAME) = {local.base_vm[1].uuid}]_vars
    /\ [][(pc' = "count_check" /\ pc # "count_check") =>
            /\ task.op = "vms_clone" /\ calls["vms_clone"] = 1
            /\ task' = [op |-> "vms_clone", state |-> "SUCCEEDED"]]_vars
    /\ [][(pc' = "power_fetch" /\ pc # "power_fetch") =>
            /\ pc = "count_check" /\ Issued("vms") /\ Answered
            /\ task = [op |-> "vms_clone", state |-> "SUCCEEDED"]
            /\ Listed(k8s_cluster_name)
                   = cfg[1].number_of_nodes + cfg[2].number_of_nodes]_vars
    /\ [][Issued("vms_set_power_state") =>
            /\ pc = "power_on"
            /\ calls["vms_clone"] = 1
            /\ \/ task = [op |-> "vms_clone", state |-> "SUCCEEDED"]
               \/ task.op = "vms_set_power_state"
            /\ Listed(k8s_cluster_name)
                   = cfg[1].number_of_nodes + cfg[2].number_of_nodes]_vars
    /\ [](pc \in {"power_on", "ip_poll", "inventory", "done"} =>
            calls["vms_clone"] = 1 /\ calls["vms"] >= 4)
    /\ [][(pc' = "power_on" /\ pc # "power_on") => pc = "power_fetch"]_vars
    /\ [][(pc = "ip_poll" /\ Issued("vms")) =>
            /\ power_sent # <<>>
            /\ {power_sent[i] : i \in 1..Len(power_sent)}
                   = ListedUuids(k8s_cluster_name)]_vars

C17_Witness ==
    /\ pc = "inventory"
    /\ Len(power_sent) = 3
    /\ calls["vms_clone"] = 1
    /\ task = [op |-> "vms_set_power_state", state |-> "SUBMITTED"]

\* the payload of a task that has ended
Terminal(info) ==
    \/ info.progress_status = "Failed"
    \/ info.percentage_complete = 100 /\ info.progress_status = "Succeeded"

\* every VM of the mapping has an IP address
Ready(vms_with_ips) ==
    \A name \in DOMAIN vms_with_ips : vms_with_ips[name] # <<>>

\* the hypervisor reports the awaited condition to the loop that polls
TaskReported ==
    WaitForTask /\ last_call'.outcome = "json" /\ Terminal(task_info')

IpsReported ==
    IpFetch /\ last_call'.outcome = "json" /\ Ready(local'.vms_with_ips)

\* C18: wait_for_task and the IP-readiness poll have no retry limit and no
\* timeout: while a loop runs, one more iteration is always possible.  A
\* loop is left when, and only when, the awaited condition is reported (a
\* terminal task status; every VM of the mapping with an IP) or a request
\* fails.  If the hypervisor reports the awaited condition at some time,
\* the loop terminates; in a run that stays in a loop for ever the
\* inventory is never generated.
C18_PollingLoops ==
    /\ [](at = "wait" => ENABLED (at' = "wait" /\ (WaitForTask \/ WaitOn)))
    /\ [](pc = "ip_poll" => ENABLED (pc' = "ip_poll" /\ (IpFetch \/ IpOn)))
    /\ [][(at = "wait" /\ last_call'.outcome = "json") =>
            (at' # "wait" <=> Terminal(task_info'))]_vars
    /\ [][(pc = "ip_poll" /\ last_call'.outcome = "json") =>
            /\ pc' # "ip_poll" <=> Ready(local'.vms_with_ips)
            /\ pc' \in {"ip_poll", "inventory"}]_vars
    /\ [][((at = "wait" \/ pc = "ip_poll")
              /\ last_call'.outcome = "HTTPError") => pc' = "raised"]_vars
    /\ (SF_vars(TaskReported) /\ SF_vars(IpsReported)) =>
            /\ (at = "wait") ~> (at # "wait")
            /\ (pc = "ip_poll") ~> (pc # "ip_poll")
    /\ <>[](at = "wait" \/ pc = "ip_poll") => [](inventory_file = <<>>)

C18_Witness ==
    /\ pc = "ip_poll"
    /\ polls = MaxPolls
    /\ last_call.op = "vms" /\ last_call.outcome = "json"
    /\ ~Ready(local.vms_with_ips)
    /\ task_info.progress_status = "Succeeded"

\* C19: the inventory is rendered from the mapping that passed the
\* IP-readiness test, with no fetch in between, so every VM of the mapping
\* has a first IP address when its host line is built; with an empty
\* mapping the test passes and no host line is built.
C19_FirstIpDefined ==
    /\ [](pc = "inventory" =>
            \A name \in DOMAIN local.vms_with_ips :
                Len(local.vms_with_ips[name]) >= 1)
    /\ [][(pc' = "inventory" /\ pc # "inventory") =>
            /\ pc = "ip_poll" /\ Issued("vms") /\ Answered
            /\ DOMAIN local'.vms_with_ips
                  = {hv_vms'[i].vmName : i \in Matching(hv_vms', k8s_cluster_name)}
            /\ \A name \in DOMAIN local'.vms_with_ips :
                  \E i \in Matching(hv_vms', k8s_cluster_name) :
                      /\ hv_vms'[i].vmName = name
                      /\ hv_vms'[i].ipAddresses = local'.vms_with_ips[name]]_vars
    /\ [][pc = "inventory" =>
            /\ pc' = "done"
            /\ calls' = calls /\ last_call' = last_call
            /\ local'.vms_with_ips = local.vms_with_ips
            /\ Len(local'.inventory_lines)
                  >= Cardinality(DOMAIN local.vms_with_ips) + 1
            /\ local'.inventory_lines[Cardinality(DOMAIN local.vms_with_ips) + 1]
                  = "\n[kube-master]"
            /\ \A name \in DOMAIN local.vms_with_ips :
                  \E k \in 1..Cardinality(DOMAIN local.vms_with_ips) :
                      local'.inventory_lines[k]
                        = name \o "    ansible_ssh_host="
                               \o local.vms_with_ips[name][1]]_vars

C19_Witness ==
    /\ pc = "done"
    /\ inventory_file # <<>>
    /\ Cardinality(DOMAIN local.vms_with_ips) = 2
    /\ local.inventory_lines[1] = "master-0-demo    ansible_ssh_host=10.0.0.1"

\* C20: once the power-on loop has ended, a power-on request has been sent
\* exactly once for every VM the search for the domain lists, and for no
\* other VM, also when two of the listed VMs have the same name.
C20_PowerOnEach ==
    (pc \in {"ip_poll", "inventory", "done"}) =>
        /\ \A uuid \in ListedUuids(k8s_cluster_name) :
              Cardinality({i \in 1..Len(power_sent) : power_sent[i] = uuid}) = 1
        /\ \A i \in 1..Len(power_sent) :
              power_sent[i] \in ListedUuids(k8s_cluster_name)

=============================================================================
